---- MODULE Spec2Model ----
(***************************************************************************)
(* A model of termscp's two system clients:                                *)
(*   - BookmarksClient (src/system/bookmarks_client.rs): the key file, the *)
(*     bookmarks file, the encrypted bookmarks and the bounded recents;    *)
(*   - ConfigClient (src/system/config_client.rs): the settings file and   *)
(*     the SSH key storage.                                                *)
(* The file system is part of the state; every fallible file operation     *)
(* chooses its outcome nondeterministically.                               *)
(***************************************************************************)
EXTENDS Integers, Sequences, FiniteSets, TLC

VARIABLES
    keyFile,        \* bookmarks key file: <<>> (absent) or <<key>>
    bmFile,         \* bookmarks file: <<>> (absent) or <<content>>
    nextKey,        \* number of keys random_alphanumeric_with_len has drawn
    clock,          \* SystemTime::now(), in seconds
    pc,             \* per BookmarksClient: "closed", "keyed" (inside new), "open"
    key,            \* BookmarksClient.key
    recents_size,   \* BookmarksClient.recents_size
    bookmarks,      \* BookmarksClient.hosts.bookmarks: name -> Bookmark
    recents,        \* BookmarksClient.hosts.recents: timestamp key -> Bookmark
    persisted       \* history: the key and the bookmarks, as get_bookmark gave
                    \* them, of the client that last wrote the bookmarks file

VARIABLES
    cfgFile,        \* settings file: <<>> (absent) or <<content>>
    keyDir,         \* SSH key directory: <<>> (absent) or <<file name -> content>>
    cpc,            \* per ConfigClient: "closed" or "open"
    config          \* ConfigClient.config

bvars == <<keyFile, bmFile, nextKey, clock, pc, key, recents_size, bookmarks, recents,
           persisted>>

svars == <<cfgFile, keyDir, cpc, config>>

vars == <<bvars, svars>>

(***************************************************************************)
(* Bounds of the model                                                     *)
(***************************************************************************)
MaxKeys == 2            \* keys generated in one behaviour
MaxTicks == 2           \* seconds the clock advances in one behaviour
MaxRecentsSize == 2     \* largest recents_size passed to new
ClockStart == 58        \* second of the hour at which the behaviour starts

\* The client values a process can hold: Stores are those a behaviour of one
\* client works with, Clients those of a behaviour with two clients on the
\* same files.
Stores == {"s1"}
Clients == {"s1", "s2"}

None == <<>>
Some(x) == <<x>>

(***************************************************************************)
(* Option, file and text values                                            *)
(***************************************************************************)
NoKey == [id |-> 0, len |-> 0]

\* A text that is a clear string, and one that is the base64 of an AES
\* encryption of `text` under `key`.
Plain(p) == [kind |-> "plain", k |-> NoKey, text |-> p]
Cipher(k, p) == [kind |-> "cipher", k |-> k, text |-> p]

KeyLen == 256

\* Bytes of the key that reached the key file when write_all failed.
PartialLens == {KeyLen \div 2}

EmptyMap == [x \in {} |-> 0]

\* The first l characters of key k (the empty string has no identity).
KeyPrefix(k, l) == IF l = 0 THEN NoKey ELSE [id |-> k.id, len |-> l]

\* An insert that keeps the value a key already has
Insert_KeepOld(m, k, v) ==
    [x \in (DOMAIN m) \cup {k} |-> IF x \in DOMAIN m THEN m[x] ELSE v]

Insert(m, k, v) == [x \in (DOMAIN m) \cup {k} |-> IF x = k THEN v ELSE m[x]]
Remove(m, k) == [x \in (DOMAIN m) \ {k} |-> m[x]]

(***************************************************************************)
(* Collaborators of the clients that live outside the two files            *)
(***************************************************************************)
Protocols == {"Sftp", "Scp", "Ftp", "Ftps"}

\* FileTransferProtocol::to_string
ProtocolToString(p) ==
    CASE p = "Sftp" -> "SFTP"
      [] p = "Scp"  -> "SCP"
      [] p = "Ftp"  -> "FTP"
      [] p = "Ftps" -> "FTPS"

\* FileTransferProtocol::from_str: Some(protocol), or None for an unknown name
ProtocolFromStr(str) ==
    IF \E p \in Protocols : ProtocolToString(p) = str
    THEN Some(CHOOSE p \in Protocols : ProtocolToString(p) = str)
    ELSE None

\* crypto::aes128_b64_crypt: total
aes128_b64_crypt(k, txt) == Cipher(k, txt.text)

\* crypto::aes128_b64_decrypt: Some(plaintext), or None when the secret is no
\* ciphertext of this key
aes128_b64_decrypt(k, secret) ==
    IF secret.kind = "cipher" /\ secret.k = k
    THEN Some(Plain(secret.text))
    ELSE None

\* fmt_time(now, "ISO%Y%m%dT%H%M%S"): the minute and the second of the hour,
\* each as two digits (the date and the hour do not change in a behaviour).
fmt_time(t) ==
    LET m == (t \div 60) % 60
        sec == t % 60
    IN  <<m \div 10, m % 10, sec \div 10, sec % 10>>

\* BookmarkSerializer::serialize: the two tables as sets of (key, entry) lines
SerializeHosts(bm, rc) ==
    [ok |-> TRUE,
     bookmarks |-> {<<n, bm[n]>> : n \in DOMAIN bm},
     recents |-> {<<n, rc[n]>> : n \in DOMAIN rc}]

\* What is left of a file that was truncated and not written in full.
Truncated == [ok |-> FALSE, bookmarks |-> {}, recents |-> {}]

\* BookmarkSerializer::deserialize of one table
DeserializeTable(lines) ==
    [n \in {l[1] : l \in lines} |-> (CHOOSE l \in lines : l[1] = n)[2]]

(***************************************************************************)
(* String order and sort, as in Vec<String>::sort                          *)
(***************************************************************************)
RECURSIVE LexLess(_, _)
LexLess(a, b) ==
    IF a = <<>> THEN b # <<>>
    ELSE IF b = <<>> THEN FALSE
    ELSE IF Head(a) # Head(b) THEN Head(a) < Head(b)
    ELSE LexLess(Tail(a), Tail(b))

RECURSIVE SortKeys(_)
SortKeys(S) ==
    IF S = {} THEN <<>>
    ELSE LET least == CHOOSE x \in S : \A y \in S \ {x} : LexLess(x, y)
         IN  <<least>> \o SortKeys(S \ {least})

(***************************************************************************)
(* BookmarksClient: pure parts                                             *)
(***************************************************************************)
\* encrypt_str
encrypt_str(k, txt) == aes128_b64_crypt(k, txt)

\* decrypt_str: Some(text) for Ok, None for Err(SyntaxError)
decrypt_str(k, secret) == aes128_b64_decrypt(k, secret)

\* make_bookmark that keeps the password as it was given
make_bookmark_Clear(k, addr, port, protocol, username, password) ==
    [address |-> addr,
     port |-> port,
     username |-> username,
     protocol |-> ProtocolToString(protocol),
     password |-> password]

\* make_bookmark
make_bookmark(k, addr, port, protocol, username, password) ==
    [address |-> addr,
     port |-> port,
     username |-> username,
     protocol |-> ProtocolToString(protocol),
     password |-> IF password # None THEN Some(encrypt_str(k, password[1])) ELSE None]

\* The protocol both getters return: the parsed one, Sftp for an unknown name.
EntryProtocol(entry) ==
    IF ProtocolFromStr(entry.protocol) # None
    THEN ProtocolFromStr(entry.protocol)[1]
    ELSE "Sftp"

\* get_bookmark that gives up the whole lookup when the password does not decrypt
get_bookmark_Propagate(s, name) ==
    IF name \notin DOMAIN bookmarks[s] THEN None
    ELSE LET entry == bookmarks[s][name]
         IN  IF entry.password # None /\ decrypt_str(key[s], entry.password[1]) = None
             THEN None
             ELSE Some([address |-> entry.address,
                        port |-> entry.port,
                        protocol |-> EntryProtocol(entry),
                        username |-> entry.username,
                        password |-> IF entry.password # None
                                     THEN decrypt_str(key[s], entry.password[1])
                                     ELSE None])

\* get_bookmark
get_bookmark(s, name) ==
    IF name \notin DOMAIN bookmarks[s] THEN None
    ELSE LET entry == bookmarks[s][name]
         IN  Some([address |-> entry.address,
                   port |-> entry.port,
                   protocol |-> EntryProtocol(entry),
                   username |-> entry.username,
                   password |-> IF entry.password # None
                                THEN decrypt_str(key[s], entry.password[1])
                                ELSE None])

\* get_recent
get_recent(s, name) ==
    IF name \notin DOMAIN recents[s] THEN None
    ELSE LET entry == recents[s][name]
         IN  Some([address |-> entry.address,
                   port |-> entry.port,
                   protocol |-> EntryProtocol(entry),
                   username |-> entry.username])

\* add_recent without its duplicate check
IsDuplicate_Never(rc, host) == FALSE

\* add_recent, lines 193-198: the new entry equals a stored one
IsDuplicate(rc, host) == \E n \in DOMAIN rc : rc[n] = host

\* The eviction loop without its break: every key is removed
EvictLoop_NoBreak(rc, keys, size) ==
    [n \in (DOMAIN rc) \ {keys[i] : i \in 1 .. Len(keys)} |-> rc[n]]

\* add_recent, lines 209-215: remove the keys in order until the map is
\* shorter than recents_size
RECURSIVE EvictLoop(_, _, _)
EvictLoop(rc, keys, size) ==
    IF keys = <<>> THEN rc
    ELSE LET r1 == Remove(rc, Head(keys))
         IN  IF Cardinality(DOMAIN r1) < size THEN r1
             ELSE EvictLoop(r1, Tail(keys), size)

\* add_recent, lines 200-216
EvictOldest(rc, size) ==
    IF Cardinality(DOMAIN rc) >= size
    THEN EvictLoop(rc, SortKeys(DOMAIN rc), size)
    ELSE rc

\* The key of a recent with the second before the minute
RecentKey_SecondsFirst(now) ==
    <<fmt_time(now)[3], fmt_time(now)[4], fmt_time(now)[1], fmt_time(now)[2]>>

\* add_recent, line 217: the key of the new recent, fmt_time of now with the
\* fields from the largest to the smallest
RecentKey(now) == fmt_time(now)

\* add_recent that moves a duplicate to the current time
AddRecentResult_Refresh(rc, size, host, now) ==
    IF IsDuplicate(rc, host)
    THEN Insert([n \in {m \in DOMAIN rc : rc[m] # host} |-> rc[n]], RecentKey(now), host)
    ELSE Insert(EvictOldest(rc, size), RecentKey(now), host)

\* add_recent, the map it leaves
AddRecentResult(rc, size, host, now) ==
    IF IsDuplicate(rc, host) THEN rc
    ELSE Insert(EvictOldest(rc, size), RecentKey(now), host)

(***************************************************************************)
(* Inputs of the operations                                                *)
(***************************************************************************)
\* (address, port, protocol, username) passed to add_recent
RecentConns ==
    { <<"1.1.1.1", 22, "Sftp", "pi">>,
      <<"1.1.1.2", 22, "Sftp", "pi">>,
      <<"1.1.1.3", 22, "Scp", "pi">> }

\* name, connection and password passed to add_bookmark
BookmarkNames == {"", "raspberry"}
BookmarkConns == { <<"192.168.1.31", 22, "Sftp", "pi">> }
Passwords == {None, Some(Plain("mypassword"))}

RecentsSizes == 0 .. MaxRecentsSize

(***************************************************************************)
(* BookmarksClient: the state after construction                           *)
(***************************************************************************)
BInit ==
    /\ keyFile = None
    /\ bmFile = None
    /\ nextKey = 0
    /\ clock = ClockStart
    /\ pc = [s \in Clients |-> "closed"]
    /\ key = [s \in Clients |-> NoKey]
    /\ recents_size = [s \in Clients |-> 0]
    /\ bookmarks = [s \in Clients |-> EmptyMap]
    /\ recents = [s \in Clients |-> EmptyMap]
    /\ persisted = [k |-> NoKey, view |-> EmptyMap]

\* No client value: new returned an error, or the client was dropped.
NoClient(s) ==
    /\ pc' = [pc EXCEPT ![s] = "closed"]
    /\ key' = [key EXCEPT ![s] = NoKey]
    /\ recents_size' = [recents_size EXCEPT ![s] = 0]
    /\ bookmarks' = [bookmarks EXCEPT ![s] = EmptyMap]
    /\ recents' = [recents EXCEPT ![s] = EmptyMap]

\* The client value new builds at lines 75-80.
FreshClient(s, k, size) ==
    /\ pc' = [pc EXCEPT ![s] = "keyed"]
    /\ key' = [key EXCEPT ![s] = k]
    /\ recents_size' = [recents_size EXCEPT ![s] = size]
    /\ bookmarks' = [bookmarks EXCEPT ![s] = EmptyMap]
    /\ recents' = [recents EXCEPT ![s] = EmptyMap]

(***************************************************************************)
(* BookmarksClient::new, first half (lines 63-80): the key                 *)
(***************************************************************************)
\* load_key that goes on with an empty key when the key file cannot be read
load_key_IgnoreError(s, size, outcome) ==
    /\ keyFile # None
    /\ outcome \in {"ok", "io"}
    /\ IF outcome = "ok"
       THEN FreshClient(s, keyFile[1], size)
       ELSE FreshClient(s, NoKey, size)
    /\ UNCHANGED <<keyFile, bmFile, nextKey, clock, persisted>>

\* load_key: the whole content of the key file, or an IoError
load_key(s, size, outcome) ==
    /\ keyFile # None
    /\ outcome \in {"ok", "io"}
    /\ IF outcome = "ok"
       THEN FreshClient(s, keyFile[1], size)
       ELSE NoClient(s)
    /\ UNCHANGED <<keyFile, bmFile, nextKey, clock, persisted>>

\* generate_key that goes on with the key after the key file failed to open
generate_key_IgnoreOpenError(s, size, outcome) ==
    /\ nextKey < MaxKeys
    /\ outcome \in {"ok", "open_err", "write_err"}
    /\ nextKey' = nextKey + 1
    /\ LET k == [id |-> nextKey + 1, len |-> KeyLen]
       IN  CASE outcome = "ok" ->
                  /\ keyFile' = Some(k)
                  /\ FreshClient(s, k, size)
             [] outcome = "open_err" ->
                  /\ keyFile' = None
                  /\ FreshClient(s, k, size)
             [] outcome = "write_err" ->
                  /\ \E l \in PartialLens : keyFile' = Some(KeyPrefix(k, l))
                  /\ NoClient(s)
    /\ UNCHANGED <<bmFile, clock, persisted>>

\* generate_key: a new key, written to the key file
generate_key(s, size, outcome) ==
    /\ nextKey < MaxKeys
    /\ outcome \in {"ok", "open_err", "write_err"}
    /\ nextKey' = nextKey + 1
    /\ LET k == [id |-> nextKey + 1, len |-> KeyLen]
       IN  CASE outcome = "ok" ->
                  /\ keyFile' = Some(k)
                  /\ FreshClient(s, k, size)
             [] outcome = "open_err" ->
                  /\ keyFile' = None
                  /\ NoClient(s)
             [] outcome = "write_err" ->
                  /\ \E l \in PartialLens : keyFile' = Some(KeyPrefix(k, l))
                  /\ NoClient(s)
    /\ UNCHANGED <<bmFile, clock, persisted>>

\* new that takes the key file for missing
KeyFileExists_Never == FALSE

\* lines 65-74: the key file exists
KeyFileExists == keyFile # None

NewKey(s, size, outcome) ==
    /\ pc[s] = "closed"
    /\ IF KeyFileExists
       THEN load_key(s, size, outcome)
       ELSE generate_key(s, size, outcome)

(***************************************************************************)
(* write_bookmarks and read_bookmarks                                      *)
(***************************************************************************)
\* Every bookmark of client s as get_bookmark returns it
View(s) == [n \in DOMAIN bookmarks[s] |-> get_bookmark(s, n)[1]]

\* History: what the bookmarks file holds after write_bookmarks of client s
Persisted(s, outcome) ==
    CASE outcome = "ok" -> [k |-> key[s], view |-> View(s)]
      [] outcome = "open_err" -> persisted
      [] outcome = "write_err" -> [k |-> NoKey, view |-> EmptyMap]

\* write_bookmarks that opens the file without truncate and keeps its lines
WrittenFile_Append(s, outcome) ==
    CASE outcome = "ok" ->
            IF bmFile = None THEN Some(SerializeHosts(bookmarks[s], recents[s]))
            ELSE Some([ok |-> TRUE,
                       bookmarks |-> SerializeHosts(bookmarks[s], recents[s]).bookmarks
                                       \cup {l \in bmFile[1].bookmarks :
                                               l[1] \notin DOMAIN bookmarks[s]},
                       recents |-> SerializeHosts(bookmarks[s], recents[s]).recents
                                     \cup {l \in bmFile[1].recents :
                                             l[1] \notin DOMAIN recents[s]}])
      [] outcome = "open_err" -> bmFile
      [] outcome = "write_err" -> Some(Truncated)

\* The bookmarks file after write_bookmarks of client s
WrittenFile(s, outcome) ==
    CASE outcome = "ok" -> Some(SerializeHosts(bookmarks[s], recents[s]))
      [] outcome = "open_err" -> bmFile
      [] outcome = "write_err" -> Some(Truncated)

\* What read_bookmarks returns: "ok", or the error
ReadOutcomes == IF bmFile # None /\ bmFile[1].ok THEN {"ok", "io"}
                ELSE IF bmFile # None THEN {"syntax", "io"}
                ELSE {"io"}

\* read_bookmarks that drops what it deserialized
LoadedBookmarks_Dropped == EmptyMap

\* read_bookmarks, lines 262-265: the bookmarks table of the file
LoadedBookmarks == DeserializeTable(bmFile[1].bookmarks)

\* read_bookmarks, lines 262-265: the recents table of the file
LoadedRecents == DeserializeTable(bmFile[1].recents)

\* write_bookmarks that keeps the bookmarks another client wrote to the file
write_bookmarks_Merge(s, outcome) ==
    /\ pc[s] = "open"
    /\ outcome \in {"ok", "open_err", "write_err"}
    /\ bmFile' = IF outcome = "ok" /\ bmFile # None /\ bmFile[1].ok
                 THEN Some([ok |-> TRUE,
                            bookmarks |-> {<<n, bookmarks[s][n]>> : n \in DOMAIN bookmarks[s]}
                                            \cup {l \in bmFile[1].bookmarks :
                                                    l[1] \notin DOMAIN bookmarks[s]},
                            recents |-> {<<n, recents[s][n]>> : n \in DOMAIN recents[s]}])
                 ELSE WrittenFile(s, outcome)
    /\ persisted' = Persisted(s, outcome)
    /\ UNCHANGED <<keyFile, nextKey, clock, pc, key, recents_size, bookmarks, recents>>

\* write_bookmarks
write_bookmarks(s, outcome) ==
    /\ pc[s] = "open"
    /\ outcome \in {"ok", "open_err", "write_err"}
    /\ bmFile' = WrittenFile(s, outcome)
    /\ persisted' = Persisted(s, outcome)
    /\ UNCHANGED <<keyFile, nextKey, clock, pc, key, recents_size, bookmarks, recents>>

\* read_bookmarks that empties the client when it fails
read_bookmarks_ClearOnError(s, outcome) ==
    /\ pc[s] = "open"
    /\ outcome \in ReadOutcomes
    /\ IF outcome = "ok"
       THEN /\ bookmarks' = [bookmarks EXCEPT ![s] = LoadedBookmarks]
            /\ recents' = [recents EXCEPT ![s] = LoadedRecents]
       ELSE /\ bookmarks' = [bookmarks EXCEPT ![s] = EmptyMap]
            /\ recents' = [recents EXCEPT ![s] = EmptyMap]
    /\ UNCHANGED <<keyFile, bmFile, nextKey, clock, pc, key, recents_size, persisted>>

\* read_bookmarks
read_bookmarks(s, outcome) ==
    /\ pc[s] = "open"
    /\ outcome \in ReadOutcomes
    /\ IF outcome = "ok"
       THEN /\ bookmarks' = [bookmarks EXCEPT ![s] = LoadedBookmarks]
            /\ recents' = [recents EXCEPT ![s] = LoadedRecents]
       ELSE UNCHANGED <<bookmarks, recents>>
    /\ UNCHANGED <<keyFile, bmFile, nextKey, clock, pc, key, recents_size, persisted>>

(***************************************************************************)
(* BookmarksClient::new, second half (lines 81-93): the bookmarks file     *)
(***************************************************************************)
\* new that leaves the first write_bookmarks out
NewData_NoBootstrap(s, outcome) ==
    /\ pc[s] = "keyed"
    /\ IF bmFile = None
       THEN /\ outcome \in {"ok", "open_err", "write_err"}
            /\ pc' = [pc EXCEPT ![s] = "open"]
            /\ UNCHANGED <<bmFile, persisted, key, recents_size, bookmarks, recents>>
       ELSE /\ outcome \in ReadOutcomes
            /\ UNCHANGED <<bmFile, persisted>>
            /\ IF outcome = "ok"
               THEN /\ pc' = [pc EXCEPT ![s] = "open"]
                    /\ bookmarks' = [bookmarks EXCEPT ![s] = LoadedBookmarks]
                    /\ recents' = [recents EXCEPT ![s] = LoadedRecents]
                    /\ UNCHANGED <<key, recents_size>>
               ELSE NoClient(s)
    /\ UNCHANGED <<keyFile, nextKey, clock>>

NewData(s, outcome) ==
    /\ pc[s] = "keyed"
    /\ IF bmFile = None
       THEN /\ outcome \in {"ok", "open_err", "write_err"}
            /\ bmFile' = WrittenFile(s, outcome)
            /\ persisted' = Persisted(s, outcome)
            /\ IF outcome = "ok"
               THEN /\ pc' = [pc EXCEPT ![s] = "open"]
                    /\ UNCHANGED <<key, recents_size, bookmarks, recents>>
               ELSE NoClient(s)
       ELSE /\ outcome \in ReadOutcomes
            /\ UNCHANGED <<bmFile, persisted>>
            /\ IF outcome = "ok"
               THEN /\ pc' = [pc EXCEPT ![s] = "open"]
                    /\ bookmarks' = [bookmarks EXCEPT ![s] = LoadedBookmarks]
                    /\ recents' = [recents EXCEPT ![s] = LoadedRecents]
                    /\ UNCHANGED <<key, recents_size>>
               ELSE NoClient(s)
    /\ UNCHANGED <<keyFile, nextKey, clock>>

(***************************************************************************)
(* BookmarksClient: the operations on a client                             *)
(***************************************************************************)
\* add_bookmark that takes every name
NameIsEmpty_Never(name) == FALSE

\* add_bookmark, lines 141-143: name.is_empty(), where it panics
NameIsEmpty(name) == name = ""

\* add_bookmark; an empty name panics before anything is changed
add_bookmark(s, name, conn, password) ==
    /\ pc[s] = "open"
    /\ IF NameIsEmpty(name)
       THEN UNCHANGED bookmarks
       ELSE bookmarks' = [bookmarks EXCEPT ![s] =
                Insert(@, name, make_bookmark(key[s], conn[1], conn[2], conn[3], conn[4], password))]
    /\ UNCHANGED <<keyFile, bmFile, nextKey, clock, pc, key, recents_size, recents, persisted>>

\* del_bookmark that clears the recents too
del_bookmark_AndRecents(s, name) ==
    /\ pc[s] = "open"
    /\ bookmarks' = [bookmarks EXCEPT ![s] = Remove(@, name)]
    /\ recents' = [recents EXCEPT ![s] = EmptyMap]
    /\ UNCHANGED <<keyFile, bmFile, nextKey, clock, pc, key, recents_size, persisted>>

\* del_bookmark
del_bookmark(s, name) ==
    /\ pc[s] = "open"
    /\ bookmarks' = [bookmarks EXCEPT ![s] = Remove(@, name)]
    /\ UNCHANGED <<keyFile, bmFile, nextKey, clock, pc, key, recents_size, recents, persisted>>

\* add_recent that stores a password with the recent
add_recent_WithPassword(s, conn) ==
    /\ pc[s] = "open"
    /\ recents' = [recents EXCEPT ![s] =
            AddRecentResult(@, recents_size[s],
                            make_bookmark(key[s], conn[1], conn[2], conn[3], conn[4],
                                          Some(Plain("mypassword"))),
                            clock)]
    /\ UNCHANGED <<keyFile, bmFile, nextKey, clock, pc, key, recents_size, bookmarks, persisted>>

\* add_recent
add_recent(s, conn) ==
    /\ pc[s] = "open"
    /\ recents' = [recents EXCEPT ![s] =
            AddRecentResult(@, recents_size[s],
                            make_bookmark(key[s], conn[1], conn[2], conn[3], conn[4], None),
                            clock)]
    /\ UNCHANGED <<keyFile, bmFile, nextKey, clock, pc, key, recents_size, bookmarks, persisted>>

\* del_recent
del_recent(s, name) ==
    /\ pc[s] = "open"
    /\ recents' = [recents EXCEPT ![s] = Remove(@, name)]
    /\ UNCHANGED <<keyFile, bmFile, nextKey, clock, pc, key, recents_size, bookmarks, persisted>>

\* The client value is dropped (the caller ends, or rebinds the variable).
Drop(s) ==
    /\ pc[s] = "open"
    /\ NoClient(s)
    /\ UNCHANGED <<keyFile, bmFile, nextKey, clock, persisted>>

(***************************************************************************)
(* The environment                                                         *)
(***************************************************************************)
\* A second passes.
Tick ==
    /\ clock < ClockStart + MaxTicks
    /\ clock' = clock + 1
    /\ UNCHANGED <<keyFile, bmFile, nextKey, pc, key, recents_size, bookmarks, recents,
                   persisted>>

\* The key file is lost while no client exists.
LoseKeyFile ==
    /\ keyFile # None
    /\ \A s \in Clients : pc[s] = "closed"
    /\ keyFile' = None
    /\ UNCHANGED <<bmFile, nextKey, clock, pc, key, recents_size, bookmarks, recents,
                   persisted>>

\* The timestamp keys a behaviour can produce.
TimeKeys == {fmt_time(t) : t \in ClockStart .. ClockStart + MaxTicks}

(***************************************************************************)
(* ConfigClient: strings, keys of the SSH key storage                      *)
(***************************************************************************)
\* A string is the sequence of its characters.
At == "@"
KeySuffix == <<".", "k", "e", "y">>

\* str.split(sep).collect()
RECURSIVE Split(_, _)
Split(str, sep) ==
    IF \A i \in 1 .. Len(str) : str[i] # sep THEN <<str>>
    ELSE LET i == CHOOSE j \in 1 .. Len(str) :
                      str[j] = sep /\ \A h \in 1 .. (j - 1) : str[h] # sep
         IN  <<SubSeq(str, 1, i - 1)>> \o Split(SubSeq(str, i + 1, Len(str)), sep)

\* make_ssh_host_key
make_ssh_host_key(host, username) == username \o <<At>> \o host

\* get_ssh_tokens: Some(<<host, username>>), or None where assert_eq! panics
get_ssh_tokens(host_key) ==
    LET tokens == Split(host_key, At)
    IN  IF Len(tokens) = 2 THEN Some(<<tokens[2], tokens[1]>>) ELSE None

\* add_ssh_key, lines 181-185: the path of the key file
SshKeyPath(host_name) == [dir |-> "ssh-keys", file |-> host_name \o KeySuffix]

(***************************************************************************)
(* ConfigClient: the configuration and its file                            *)
(***************************************************************************)
\* UserConfig::default
DefaultConfig ==
    [text_editor |-> "vim",
     default_protocol |-> "SFTP",
     show_hidden_files |-> FALSE,
     group_dirs |-> None,
     ssh_keys |-> EmptyMap]

\* ConfigSerializer::serialize
SerializeConfig(cfg) ==
    [ok |-> TRUE,
     ui |-> <<cfg.text_editor, cfg.default_protocol, cfg.show_hidden_files, cfg.group_dirs>>,
     ssh_keys |-> {<<n, cfg.ssh_keys[n]>> : n \in DOMAIN cfg.ssh_keys}]

\* ConfigSerializer::deserialize
DeserializeConfig(content) ==
    [text_editor |-> content.ui[1],
     default_protocol |-> content.ui[2],
     show_hidden_files |-> content.ui[3],
     group_dirs |-> content.ui[4],
     ssh_keys |-> DeserializeTable(content.ssh_keys)]

\* What is left of a settings file that was truncated and not written in full.
TruncatedConfig == [ok |-> FALSE, ui |-> <<"", "", FALSE, None>>, ssh_keys |-> {}]

\* The settings file after write_config of configuration cfg
WrittenConfig(cfg, outcome) ==
    CASE outcome = "ok" -> Some(SerializeConfig(cfg))
      [] outcome = "open_err" -> cfgFile
      [] outcome = "write_err" -> Some(TruncatedConfig)

\* What read_config returns: "ok", or the error
ConfigReadOutcomes ==
    IF cfgFile # None /\ cfgFile[1].ok THEN {"ok", "io"}
    ELSE IF cfgFile # None THEN {"syntax", "io"}
    ELSE {"io"}

(***************************************************************************)
(* Inputs of the ConfigClient operations                                   *)
(***************************************************************************)
SshHosts == { <<"h">> }
SshUsers == { <<"p", "i">>, <<"a", At, "b">> }
SshKeys == {"rsa1", "rsa2"}
\* What reached a key file when write_all failed
PartialSshKey == ""
Editors == {"nano"}
DefaultProtocols == {"Scp"}
GroupDirs == {None, Some("First")}

\* GroupDirs::to_string
GroupDirsToString(g) == IF g = "First" THEN "first" ELSE "last"

SInit ==
    /\ cfgFile = None
    /\ keyDir = None
    /\ cpc = [s \in Clients |-> "closed"]
    /\ config = [s \in Clients |-> DefaultConfig]

(***************************************************************************)
(* ConfigClient: the operations                                            *)
(***************************************************************************)
\* ConfigClient::new
ConfigClient_new(s, outcome) ==
    /\ cpc[s] = "closed"
    /\ IF keyDir = None /\ outcome = "dir_err"
       THEN UNCHANGED svars
       ELSE /\ keyDir' = IF keyDir = None THEN Some(EmptyMap) ELSE keyDir
            /\ IF cfgFile = None
               THEN /\ outcome \in {"ok", "open_err", "write_err"}
                    /\ cfgFile' = WrittenConfig(DefaultConfig, outcome)
                    /\ IF outcome = "ok"
                       THEN /\ cpc' = [cpc EXCEPT ![s] = "open"]
                            /\ config' = [config EXCEPT ![s] = DefaultConfig]
                       ELSE UNCHANGED <<cpc, config>>
               ELSE /\ outcome \in ConfigReadOutcomes
                    /\ UNCHANGED cfgFile
                    /\ IF outcome = "ok"
                       THEN /\ cpc' = [cpc EXCEPT ![s] = "open"]
                            /\ config' = [config EXCEPT ![s] = DeserializeConfig(cfgFile[1])]
                       ELSE UNCHANGED <<cpc, config>>

\* set_text_editor that commits the configuration to the settings file
set_text_editor_Persist(s, path) ==
    /\ cpc[s] = "open"
    /\ config' = [config EXCEPT ![s].text_editor = path]
    /\ cfgFile' = Some(SerializeConfig(config'[s]))
    /\ UNCHANGED <<keyDir, cpc>>

\* set_text_editor
set_text_editor(s, path) ==
    /\ cpc[s] = "open"
    /\ config' = [config EXCEPT ![s].text_editor = path]
    /\ UNCHANGED <<cfgFile, keyDir, cpc>>

\* set_default_protocol
set_default_protocol(s, proto) ==
    /\ cpc[s] = "open"
    /\ config' = [config EXCEPT ![s].default_protocol = ProtocolToString(proto)]
    /\ UNCHANGED <<cfgFile, keyDir, cpc>>

\* set_show_hidden_files
set_show_hidden_files(s, value) ==
    /\ cpc[s] = "open"
    /\ config' = [config EXCEPT ![s].show_hidden_files = value]
    /\ UNCHANGED <<cfgFile, keyDir, cpc>>

\* set_group_dirs
set_group_dirs(s, val) ==
    /\ cpc[s] = "open"
    /\ config' = [config EXCEPT ![s].group_dirs =
                    IF val = None THEN None ELSE Some(GroupDirsToString(val[1]))]
    /\ UNCHANGED <<cfgFile, keyDir, cpc>>

\* add_ssh_key that writes only the SSH key storage into the settings file and
\* keeps the other settings the file held
add_ssh_key_PersistKeysOnly(s, host, username, ssh_key, outcome) ==
    LET host_name == make_ssh_host_key(host, username)
        ssh_key_path == SshKeyPath(host_name)
        onDisk == IF cfgFile # None /\ cfgFile[1].ok
                  THEN DeserializeConfig(cfgFile[1])
                  ELSE DefaultConfig
    IN  /\ cpc[s] = "open"
        /\ outcome \in {"ok", "create_err", "write_err", "cfg_open_err", "cfg_write_err"}
        /\ CASE outcome = "create_err" ->
                  UNCHANGED svars
             [] outcome = "write_err" ->
                  /\ keyDir' = Some(Insert(keyDir[1], ssh_key_path.file, PartialSshKey))
                  /\ UNCHANGED <<cfgFile, cpc, config>>
             [] OTHER ->
                  /\ keyDir' = Some(Insert(keyDir[1], ssh_key_path.file, ssh_key))
                  /\ config' = [config EXCEPT ![s].ssh_keys = Insert(@, host_name, ssh_key_path)]
                  /\ cfgFile' = WrittenConfig([onDisk EXCEPT !.ssh_keys = config'[s].ssh_keys],
                                    CASE outcome = "ok" -> "ok"
                                      [] outcome = "cfg_open_err" -> "open_err"
                                      [] outcome = "cfg_write_err" -> "write_err")
                  /\ UNCHANGED cpc

\* add_ssh_key
add_ssh_key(s, host, username, ssh_key, outcome) ==
    LET host_name == make_ssh_host_key(host, username)
        ssh_key_path == SshKeyPath(host_name)
    IN  /\ cpc[s] = "open"
        /\ outcome \in {"ok", "create_err", "write_err", "cfg_open_err", "cfg_write_err"}
        /\ CASE outcome = "create_err" ->
                  UNCHANGED svars
             [] outcome = "write_err" ->
                  /\ keyDir' = Some(Insert(keyDir[1], ssh_key_path.file, PartialSshKey))
                  /\ UNCHANGED <<cfgFile, cpc, config>>
             [] OTHER ->
                  /\ keyDir' = Some(Insert(keyDir[1], ssh_key_path.file, ssh_key))
                  /\ config' = [config EXCEPT ![s].ssh_keys = Insert(@, host_name, ssh_key_path)]
                  /\ cfgFile' = WrittenConfig(config'[s],
                                    CASE outcome = "ok" -> "ok"
                                      [] outcome = "cfg_open_err" -> "open_err"
                                      [] outcome = "cfg_write_err" -> "write_err")
                  /\ UNCHANGED cpc

\* del_ssh_key that goes on to write_config after remove_file failed
del_ssh_key_PersistAnyway(s, host, username, outcome) ==
    LET host_name == make_ssh_host_key(host, username)
    IN  /\ cpc[s] = "open"
        /\ outcome \in {"ok", "remove_err", "cfg_open_err", "cfg_write_err"}
        /\ IF host_name \notin DOMAIN config[s].ssh_keys
           THEN UNCHANGED svars
           ELSE LET key_path == config[s].ssh_keys[host_name]
                IN  /\ config' = [config EXCEPT ![s].ssh_keys = Remove(@, host_name)]
                    /\ keyDir' = IF outcome = "remove_err"
                                 THEN keyDir
                                 ELSE Some(Remove(keyDir[1], key_path.file))
                    /\ cfgFile' = WrittenConfig(config'[s],
                                      CASE outcome = "ok" -> "ok"
                                        [] outcome = "remove_err" -> "ok"
                                        [] outcome = "cfg_open_err" -> "open_err"
                                        [] outcome = "cfg_write_err" -> "write_err")
                    /\ UNCHANGED cpc

\* del_ssh_key
del_ssh_key(s, host, username, outcome) ==
    LET host_name == make_ssh_host_key(host, username)
    IN  /\ cpc[s] = "open"
        /\ outcome \in {"ok", "remove_err", "cfg_open_err", "cfg_write_err"}
        /\ IF host_name \notin DOMAIN config[s].ssh_keys
           THEN UNCHANGED svars
           ELSE LET key_path == config[s].ssh_keys[host_name]
                IN  /\ config' = [config EXCEPT ![s].ssh_keys = Remove(@, host_name)]
                    /\ IF outcome = "remove_err" \/ key_path.file \notin DOMAIN keyDir[1]
                       THEN UNCHANGED <<cfgFile, keyDir, cpc>>
                       ELSE /\ keyDir' = Some(Remove(keyDir[1], key_path.file))
                            /\ cfgFile' = WrittenConfig(config'[s],
                                              CASE outcome = "ok" -> "ok"
                                                [] outcome = "cfg_open_err" -> "open_err"
                                                [] outcome = "cfg_write_err" -> "write_err")
                            /\ UNCHANGED cpc

\* add_ssh_key that drops the error of write_config
add_ssh_key_result_Swallow(outcome) ==
    IF outcome \in {"ok", "cfg_open_err", "cfg_write_err"} THEN "ok" ELSE "err"

\* What add_ssh_key returns: "ok", or "err" for the IoError of the step that failed
add_ssh_key_result(outcome) == IF outcome = "ok" THEN "ok" ELSE "err"

\* What del_ssh_key returns: "ok" at once for a host that has no entry, else
\* the error of remove_file or of write_config, else "ok"
del_ssh_key_result(s, host, username, outcome) ==
    LET host_name == make_ssh_host_key(host, username)
    IN  IF host_name \notin DOMAIN config[s].ssh_keys THEN "ok"
        ELSE IF outcome = "remove_err"
                \/ config[s].ssh_keys[host_name].file \notin DOMAIN keyDir[1]
        THEN "err"
        ELSE IF outcome = "ok" THEN "ok" ELSE "err"

\* get_ssh_key: "none", "some" with (host, username, key path), or "panic"
get_ssh_key(s, mkey) ==
    IF mkey \notin DOMAIN config[s].ssh_keys
    THEN [res |-> "none", val |-> <<>>]
    ELSE IF get_ssh_tokens(mkey) = None
    THEN [res |-> "panic", val |-> <<>>]
    ELSE [res |-> "some",
          val |-> <<get_ssh_tokens(mkey)[1][1], get_ssh_tokens(mkey)[1][2],
                    config[s].ssh_keys[mkey]>>]

\* write_config
write_config(s, outcome) ==
    /\ cpc[s] = "open"
    /\ outcome \in {"ok", "open_err", "write_err"}
    /\ cfgFile' = WrittenConfig(config[s], outcome)
    /\ UNCHANGED <<keyDir, cpc, config>>

\* read_config that keeps the SSH key storage of the client
read_config_KeepVault(s, outcome) ==
    /\ cpc[s] = "open"
    /\ outcome \in ConfigReadOutcomes
    /\ IF outcome = "ok"
       THEN config' = [config EXCEPT ![s] =
                         [DeserializeConfig(cfgFile[1]) EXCEPT !.ssh_keys = config[s].ssh_keys]]
       ELSE UNCHANGED config
    /\ UNCHANGED <<cfgFile, keyDir, cpc>>

\* read_config
read_config(s, outcome) ==
    /\ cpc[s] = "open"
    /\ outcome \in ConfigReadOutcomes
    /\ IF outcome = "ok"
       THEN config' = [config EXCEPT ![s] = DeserializeConfig(cfgFile[1])]
       ELSE UNCHANGED config
    /\ UNCHANGED <<cfgFile, keyDir, cpc>>

\* The client value is dropped.
ConfigDrop(s) ==
    /\ cpc[s] = "open"
    /\ cpc' = [cpc EXCEPT ![s] = "closed"]
    /\ config' = [config EXCEPT ![s] = DefaultConfig]
    /\ UNCHANGED <<cfgFile, keyDir>>

Init == BInit /\ SInit

Next ==
    \/ \E s \in Stores, size \in RecentsSizes, o \in {"ok", "io", "open_err", "write_err"} :
            NewKey(s, size, o) /\ UNCHANGED svars
    \/ \E s \in Stores, o \in {"ok", "io", "syntax", "open_err", "write_err"} :
            NewData(s, o) /\ UNCHANGED svars
    \/ \E s \in Stores, n \in BookmarkNames, c \in BookmarkConns, p \in Passwords :
            add_bookmark(s, n, c, p) /\ UNCHANGED svars
    \/ \E s \in Stores, n \in BookmarkNames : del_bookmark(s, n) /\ UNCHANGED svars
    \/ \E s \in Stores, c \in RecentConns : add_recent(s, c) /\ UNCHANGED svars
    \/ \E s \in Stores, n \in TimeKeys : del_recent(s, n) /\ UNCHANGED svars
    \/ \E s \in Stores, o \in {"ok", "open_err", "write_err"} :
            write_bookmarks(s, o) /\ UNCHANGED svars
    \/ \E s \in Stores, o \in {"ok", "io", "syntax"} : read_bookmarks(s, o) /\ UNCHANGED svars
    \/ \E s \in Stores : Drop(s) /\ UNCHANGED svars
    \/ Tick /\ UNCHANGED svars
    \/ LoseKeyFile /\ UNCHANGED svars

Spec == Init /\ [][Next]_vars

SettingsNext ==
    \/ \E s \in Stores, o \in {"ok", "dir_err", "io", "syntax", "open_err", "write_err"} :
            ConfigClient_new(s, o) /\ UNCHANGED bvars
    \/ \E s \in Stores, e \in Editors : set_text_editor(s, e) /\ UNCHANGED bvars
    \/ \E s \in Stores, p \in DefaultProtocols : set_default_protocol(s, p) /\ UNCHANGED bvars
    \/ \E s \in Stores, v \in BOOLEAN : set_show_hidden_files(s, v) /\ UNCHANGED bvars
    \/ \E s \in Stores, g \in GroupDirs : set_group_dirs(s, g) /\ UNCHANGED bvars
    \/ \E s \in Stores, h \in SshHosts, u \in SshUsers, k \in SshKeys,
          o \in {"ok", "create_err", "write_err", "cfg_open_err", "cfg_write_err"} :
            add_ssh_key(s, h, u, k, o) /\ UNCHANGED bvars
    \/ \E s \in Stores, h \in SshHosts, u \in SshUsers,
          o \in {"ok", "remove_err", "cfg_open_err", "cfg_write_err"} :
            del_ssh_key(s, h, u, o) /\ UNCHANGED bvars
    \/ \E s \in Stores, o \in {"ok", "open_err", "write_err"} :
            write_config(s, o) /\ UNCHANGED bvars
    \/ \E s \in Stores, o \in {"ok", "io", "syntax"} : read_config(s, o) /\ UNCHANGED bvars
    \/ \E s \in Stores : ConfigDrop(s) /\ UNCHANGED bvars

SpecSettings == Init /\ [][SettingsNext]_vars

\* Both clients: a behaviour works with the BookmarksClient or with the
\* ConfigClient (they share no state, neither in memory nor on disk).
SystemNext ==
    \/ SInit /\ Next
    \/ BInit /\ SettingsNext

SpecSystem == Init /\ [][SystemNext]_vars

(***************************************************************************)
(* Two clients on the same files                                           *)
(***************************************************************************)
\* The names the two clients give their bookmarks
SharedNames == {"raspberry", "server"}

SharedNext ==
    \/ \E s \in Clients, o \in {"ok", "io", "open_err", "write_err"} :
            SInit /\ NewKey(s, MaxRecentsSize, o) /\ UNCHANGED svars
    \/ \E s \in Clients, o \in {"ok", "io", "syntax", "open_err", "write_err"} :
            SInit /\ NewData(s, o) /\ UNCHANGED svars
    \/ \E s \in Clients, n \in SharedNames, c \in BookmarkConns :
            SInit /\ add_bookmark(s, n, c, None) /\ UNCHANGED svars
    \/ \E s \in Clients, n \in SharedNames : SInit /\ del_bookmark(s, n) /\ UNCHANGED svars
    \/ \E s \in Clients, o \in {"ok", "open_err", "write_err"} :
            SInit /\ write_bookmarks(s, o) /\ UNCHANGED svars
    \/ \E s \in Clients, o \in {"ok", "io", "syntax"} :
            SInit /\ read_bookmarks(s, o) /\ UNCHANGED svars
    \/ \E s \in Clients : SInit /\ Drop(s) /\ UNCHANGED svars
    \/ \E s \in Clients, o \in {"ok", "dir_err", "io", "syntax", "open_err", "write_err"} :
            BInit /\ ConfigClient_new(s, o) /\ UNCHANGED bvars
    \/ \E s \in Clients, e \in Editors : BInit /\ set_text_editor(s, e) /\ UNCHANGED bvars
    \/ \E s \in Clients, v \in BOOLEAN : BInit /\ set_show_hidden_files(s, v) /\ UNCHANGED bvars
    \/ \E s \in Clients, o \in {"ok", "open_err", "write_err"} :
            BInit /\ write_config(s, o) /\ UNCHANGED bvars
    \/ \E s \in Clients, o \in {"ok", "io", "syntax"} :
            BInit /\ read_config(s, o) /\ UNCHANGED bvars
    \/ \E s \in Clients : BInit /\ ConfigDrop(s) /\ UNCHANGED bvars

SpecShared == Init /\ [][SharedNext]_vars

(***************************************************************************)
(* Properties of BookmarksClient                                           *)
(***************************************************************************)
NewRecent(s, c) == make_bookmark(key[s], c[1], c[2], c[3], c[4], None)

\* C1: after every add_recent the recents are at most recents_size, whatever
\* recents_size is (0 included).
C1_RecentsBounded ==
    [][\A s \in Stores, c \in RecentConns :
          add_recent(s, c) => Cardinality(DOMAIN recents'[s]) <= recents_size[s]]_vars

\* The keys of pre whose entry is not in post any more.
Removed(pre, post) == {n \in DOMAIN pre : n \notin DOMAIN post \/ post[n] # pre[n]}

\* The k lexicographically smallest keys of S.
Smallest(S, k) == {x \in S : Cardinality({y \in S : LexLess(y, x)}) < k}

\* The entries to evict from n entries so that fewer than size are left.
EvictCount(n, size) == IF size = 0 THEN n ELSE n - size + 1

\* An add_recent of client s that is no duplicate and finds the map full.
FullAddRecent(s, c) ==
    /\ add_recent(s, c)
    /\ ~ \E n \in DOMAIN recents[s] : recents[s][n] = NewRecent(s, c)
    /\ Cardinality(DOMAIN recents[s]) >= recents_size[s]

Oldest(s) ==
    Smallest(DOMAIN recents[s], EvictCount(Cardinality(DOMAIN recents[s]), recents_size[s]))

\* C2 as stated: a non-duplicate add_recent on a full map removes exactly the
\* entries with the smallest keys, and every entry with a larger key survives.
C2_RemovesExactlyOldest ==
    [][\A s \in Stores, c \in RecentConns :
          FullAddRecent(s, c) => Removed(recents[s], recents'[s]) = Oldest(s)]_vars

\* C2 amended: it removes exactly the entries with the smallest keys and, if
\* there is one, the entry stored under the new entry's own timestamp key;
\* every other entry survives and the new entry is stored under that key.
C2_RemovesOldestAndSameSecond ==
    [][\A s \in Stores, c \in RecentConns :
          FullAddRecent(s, c) =>
            /\ Removed(recents[s], recents'[s])
                 = Oldest(s) \cup ({fmt_time(clock)} \cap DOMAIN recents[s])
            /\ DOMAIN recents'[s] = ((DOMAIN recents[s]) \ Oldest(s)) \cup {fmt_time(clock)}
            /\ recents'[s][fmt_time(clock)] = NewRecent(s, c)
            /\ ((recents_size[s] = 2
                 /\ DOMAIN recents[s] = {fmt_time(ClockStart), fmt_time(ClockStart + 1)}
                 /\ clock = ClockStart + 2)
                => recents'[s] = [n \in {fmt_time(ClockStart + 1), fmt_time(ClockStart + 2)} |->
                                    IF n = fmt_time(clock) THEN NewRecent(s, c)
                                    ELSE recents[s][n]])]_vars

\* recents_size = 2 and three adds in three different seconds: the second and
\* the third entry are left.
C2_Witness ==
    \E s \in Stores :
        /\ pc[s] = "open"
        /\ recents_size[s] = 2
        /\ DOMAIN recents[s] = {fmt_time(ClockStart + 1), fmt_time(ClockStart + 2)}
        /\ recents[s][fmt_time(ClockStart + 1)].address = "1.1.1.2"
        /\ recents[s][fmt_time(ClockStart + 2)].address = "1.1.1.3"

ConnOf(entry) == <<entry.address, entry.port, entry.protocol, entry.username>>

\* C3: no two recents of a client have the same (address, port, protocol,
\* username).
C3_NoDuplicateRecents ==
    \A s \in Stores : \A a, b \in DOMAIN recents[s] :
        a # b => ConnOf(recents[s][a]) # ConnOf(recents[s][b])

\* One recent, stored in an earlier second: what two add_recent calls with the
\* same parameters in two different seconds leave.
C3_Witness ==
    \E s \in Stores :
        /\ pc[s] = "open"
        /\ recents_size[s] = 2
        /\ DOMAIN recents[s] = {fmt_time(ClockStart)}
        /\ clock > ClockStart

\* C4: a client opened on the bookmarks file another client wrote, with the
\* key file holding that client's key, gives the same names and, for each, what
\* get_bookmark gave before the write; and get_bookmark of a bookmark just
\* added gives the connection and the plaintext password it was added with.
C4_RoundTrip ==
    [][\A s \in Stores :
          /\ (NewData(s, "ok") /\ bmFile # None /\ keyFile = Some(persisted.k))
                => View(s)' = persisted.view
          /\ \A n \in BookmarkNames \ {""}, c \in BookmarkConns, p \in Passwords :
                add_bookmark(s, n, c, p)
                => get_bookmark(s, n)'
                     = Some([address |-> c[1], port |-> c[2], protocol |-> c[3],
                             username |-> c[4], password |-> p])]_vars

\* A client that holds more recents than its recents_size loaded them from a
\* file an earlier client wrote; it gives the password of a bookmark in clear.
C4_Witness ==
    \E s \in Stores :
        /\ pc[s] = "open"
        /\ Cardinality(DOMAIN recents[s]) > recents_size[s]
        /\ "raspberry" \in DOMAIN bookmarks[s]
        /\ get_bookmark(s, "raspberry")[1].password = Some(Plain("mypassword"))
        /\ View(s) = persisted.view

\* C5: new on an existing key file leaves the file as it is, and the key of
\* the client it builds is the whole content of the file.
C5_KeyLoadedVerbatim ==
    [][\A s \in Stores, size \in RecentsSizes, o \in {"ok", "io"} :
          (NewKey(s, size, o) /\ keyFile # None)
            => /\ keyFile' = keyFile
               /\ nextKey' = nextKey
               /\ (pc'[s] = "keyed" => key'[s] = keyFile[1])]_vars

\* new is past its key step, only one key was ever generated and the
\* bookmarks file of an earlier new exists: this new loaded the key.
C5_Witness ==
    \E s \in Stores :
        /\ pc[s] = "keyed"
        /\ bmFile # None
        /\ nextKey = 1
        /\ keyFile = Some([id |-> 1, len |-> KeyLen])
        /\ key[s] = keyFile[1]

\* C6: the step that creates the bookmarks file finds the key file in place
\* and leaves it alone; a step that creates the key file draws exactly one
\* key, and no step draws more than one.
C6_KeyBeforeBootstrap ==
    [][/\ (bmFile = None /\ bmFile' # None) => (keyFile # None /\ keyFile' = keyFile)
       /\ (keyFile = None /\ keyFile' # None) => nextKey' = nextKey + 1
       /\ nextKey' \in {nextKey, nextKey + 1}]_vars

\* The first new succeeded: one key drawn, in the key file and in the client,
\* and the bookmarks file bootstrapped empty.
C6_Witness ==
    \E s \in Stores :
        /\ pc[s] = "open"
        /\ nextKey = 1
        /\ keyFile = Some([id |-> 1, len |-> KeyLen])
        /\ key[s] = keyFile[1]
        /\ bmFile = Some(SerializeHosts(EmptyMap, EmptyMap))

\* The passwords the bookmarks of client s hold, and those in the file.
MemoryPasswords(s) ==
    {bookmarks[s][n].password[1] : n \in {m \in DOMAIN bookmarks[s] : bookmarks[s][m].password # None}}

FilePasswords ==
    IF bmFile = None THEN {}
    ELSE {l[2].password[1] : l \in {m \in bmFile[1].bookmarks : m[2].password # None}}

\* C7 as stated: every password in a client's bookmarks and in the bookmarks
\* file is a ciphertext under that client's key.
C7_CipherOfStoreKey ==
    \A s \in Stores : pc[s] = "open" =>
        \A w \in MemoryPasswords(s) \cup FilePasswords : w.kind = "cipher" /\ w.k = key[s]

\* C7 amended: every password in a client's bookmarks and in the bookmarks
\* file is a ciphertext under a key this module generated (the key of the
\* client that added it), never the plaintext; add_bookmark stores the
\* ciphertext of the caller's password under the client's key.
C7_NeverClearText ==
    /\ [](\A s \in Stores : \A w \in MemoryPasswords(s) \cup FilePasswords :
              /\ w.kind = "cipher"
              /\ w.k.id \in 0 .. nextKey)
    /\ [][\A s \in Stores, n \in BookmarkNames \ {""}, c \in BookmarkConns, p \in Passwords :
              (add_bookmark(s, n, c, p) /\ p # None)
                => bookmarks'[s][n].password = Some(Cipher(key[s], p[1].text))]_vars

\* A bookmark with a password is in a client and in the bookmarks file.
C7_Witness ==
    \E s \in Stores :
        /\ pc[s] = "open"
        /\ MemoryPasswords(s) # {}
        /\ FilePasswords # {}
        /\ \E w \in MemoryPasswords(s) : w.k # key[s]

\* C8: get_bookmark of a stored bookmark always gives the stored address,
\* port, protocol and username, and password = none when the stored password
\* does not decrypt with the client's key.
C8_LookupSurvivesBadPassword ==
    \A s \in Stores : \A n \in DOMAIN bookmarks[s] :
        LET entry == bookmarks[s][n]
            got == get_bookmark(s, n)
        IN  /\ got # None
            /\ got[1].address = entry.address
            /\ got[1].port = entry.port
            /\ ProtocolToString(got[1].protocol) = entry.protocol
            /\ got[1].username = entry.username
            /\ (entry.password # None /\ decrypt_str(key[s], entry.password[1]) = None)
                  => got[1].password = None

\* A client holds a bookmark whose password its key does not decrypt.
C8_Witness ==
    \E s \in Stores : \E n \in DOMAIN bookmarks[s] :
        /\ pc[s] = "open"
        /\ bookmarks[s][n].password # None
        /\ decrypt_str(key[s], bookmarks[s][n].password[1]) = None
        /\ get_bookmark(s, n) # None

\* C14: add_bookmark with an empty name panics and leaves everything as it
\* is: no bookmark under the empty name, bookmarks, recents and the bookmarks
\* file unchanged.
C14_EmptyNamePanics ==
    /\ [][\A s \in Stores, c \in BookmarkConns, p \in Passwords :
             add_bookmark(s, "", c, p) => (NameIsEmpty("") /\ UNCHANGED vars)]_vars
    /\ [](\A s \in Stores : "" \notin DOMAIN bookmarks[s])

\* A client with a bookmark, a recent and a written bookmarks file, where
\* add_bookmark with the empty name can be called.
C14_Witness ==
    \E s \in Stores :
        /\ pc[s] = "open"
        /\ \E c \in BookmarkConns, p \in Passwords : ENABLED add_bookmark(s, "", c, p)
        /\ DOMAIN bookmarks[s] = {"raspberry"}
        /\ recents[s] # EmptyMap
        /\ bmFile = Some(SerializeHosts(bookmarks[s], recents[s]))

\* C16: add_recent of an entry equal to a stored recent leaves the recents as
\* they are, full or not: nothing evicted, no new key, the stored entry under
\* its old key.
C16_DuplicateLeavesRecents ==
    \A s \in Stores, c \in RecentConns :
        (pc[s] = "open" /\ \E n \in DOMAIN recents[s] : recents[s][n] = NewRecent(s, c))
          => AddRecentResult(recents[s], recents_size[s], NewRecent(s, c), clock) = recents[s]

\* A full client whose only recent is two seconds old and equals an entry
\* add_recent can be called with.
C16_Witness ==
    \E s \in Stores :
        /\ pc[s] = "open"
        /\ recents_size[s] = 1
        /\ DOMAIN recents[s] = {fmt_time(ClockStart)}
        /\ clock = ClockStart + 2
        /\ \E c \in RecentConns : IsDuplicate(recents[s], NewRecent(s, c))

\* The recents lines of the bookmarks file.
FileRecents == IF bmFile = None THEN {} ELSE bmFile[1].recents

\* C17: no recent of a client and no recent in the bookmarks file has a
\* password, and get_recent gives address, port, protocol and username only.
C17_RecentsWithoutPassword ==
    /\ \A s \in Stores : \A n \in DOMAIN recents[s] :
          /\ recents[s][n].password = None
          /\ DOMAIN get_recent(s, n)[1] = {"address", "port", "protocol", "username"}
    /\ \A l \in FileRecents : l[2].password = None

\* A client holds a bookmark with a password and a recent, and the bookmarks
\* file holds a recent.
C17_Witness ==
    \E s \in Stores :
        /\ pc[s] = "open"
        /\ MemoryPasswords(s) # {}
        /\ recents[s] # EmptyMap
        /\ FileRecents # {}

\* The instant whose key is n.
InstantOf(n) == CHOOSE t \in ClockStart .. ClockStart + MaxTicks : RecentKey(t) = n

\* C19: the key add_recent makes keeps the order of time: the key of an
\* earlier second is lexicographically smaller than the key of a later one;
\* every key of a client is the key of a second that has begun; and the
\* entries add_recent evicts were stored before every entry it keeps.
C19_KeysOrderedByTime ==
    /\ [](\A t1, t2 \in ClockStart .. ClockStart + MaxTicks :
             t1 < t2 => LexLess(RecentKey(t1), RecentKey(t2)))
    /\ [](\A s \in Stores : \A n \in DOMAIN recents[s] :
             \E t \in ClockStart .. clock : n = RecentKey(t))
    /\ [][\A s \in Stores, c \in RecentConns :
             FullAddRecent(s, c) =>
                \A n \in Oldest(s), m \in (DOMAIN recents[s]) \ Oldest(s) :
                    /\ n \notin DOMAIN recents'[s] \/ n = RecentKey(clock)
                    /\ InstantOf(n) < InstantOf(m)]_vars

\* A client of size 1 holds the recent of the third second only, while the
\* bookmarks file still holds the recent of the first second.
C19_Witness ==
    \E s \in Stores :
        /\ pc[s] = "open"
        /\ recents_size[s] = 1
        /\ clock = ClockStart + 2
        /\ DOMAIN recents[s] = {RecentKey(ClockStart + 2)}
        /\ {l[1] : l \in FileRecents} = {RecentKey(ClockStart)}

\* C20: after a write_bookmarks that succeeded the bookmarks file is the
\* serialization of the bookmarks and the recents of the client, and nothing
\* else: reading it back gives exactly these two maps.
C20_PersistWritesAll ==
    /\ [](\A s \in Stores : pc[s] = "open" =>
             /\ WrittenFile(s, "ok") = Some(SerializeHosts(bookmarks[s], recents[s]))
             /\ DeserializeTable(WrittenFile(s, "ok")[1].bookmarks) = bookmarks[s]
             /\ DeserializeTable(WrittenFile(s, "ok")[1].recents) = recents[s])
    /\ [][\A s \in Stores :
             write_bookmarks(s, "ok") =>
                /\ bmFile' = Some(SerializeHosts(bookmarks[s], recents[s]))
                /\ {l[1] : l \in bmFile'[1].bookmarks} = DOMAIN bookmarks[s]
                /\ {l[1] : l \in bmFile'[1].recents} = DOMAIN recents[s]
                /\ UNCHANGED <<bookmarks, recents>>]_vars

\* The bookmarks file holds the two recents of a client and no bookmark,
\* written with the second key after a bookmark had been written with it.
C20_Witness ==
    \E s \in Stores :
        /\ pc[s] = "open"
        /\ bookmarks[s] = EmptyMap
        /\ Cardinality(DOMAIN recents[s]) = 2
        /\ bmFile = Some(SerializeHosts(bookmarks[s], recents[s]))
        /\ persisted = [k |-> key[s], view |-> EmptyMap]

\* C22: a new that succeeds where no bookmarks file was leaves the bookmarks
\* file in place, holding no bookmark and no recent, and the client holds none
\* either; a new on a bookmarks file that holds none gives a client that holds
\* none.
C22_BootstrapWritesEmptyFile ==
    [][\A s \in Stores :
          /\ (NewData(s, "ok") /\ bmFile = None)
                => /\ pc'[s] = "open"
                   /\ bmFile' = Some(SerializeHosts(EmptyMap, EmptyMap))
                   /\ bookmarks'[s] = EmptyMap /\ recents'[s] = EmptyMap
          /\ (NewData(s, "ok") /\ bmFile = Some(SerializeHosts(EmptyMap, EmptyMap)))
                => /\ pc'[s] = "open"
                   /\ bmFile' = bmFile
                   /\ bookmarks'[s] = EmptyMap /\ recents'[s] = EmptyMap]_vars

\* A client with the second key on the empty bookmarks file the client with
\* the first key wrote: its new loaded the file.
C22_Witness ==
    \E s \in Stores :
        /\ pc[s] = "open"
        /\ key[s].id = 2
        /\ persisted = [k |-> [id |-> 1, len |-> KeyLen], view |-> EmptyMap]
        /\ bmFile = Some(SerializeHosts(EmptyMap, EmptyMap))
        /\ bookmarks[s] = EmptyMap /\ recents[s] = EmptyMap

\* C23: del_bookmark(name) removes the bookmark called name and nothing else:
\* get_bookmark(name) is none, the other bookmarks and the recents are as they
\* were, and nothing changes when there is no such bookmark; del_recent(key)
\* does the same to the recents and leaves the bookmarks alone.
C23_DeleteRemovesOne ==
    /\ [][\A s \in Stores :
             /\ \A n \in BookmarkNames :
                   del_bookmark(s, n)
                     => /\ get_bookmark(s, n)' = None
                        /\ bookmarks'[s] = [m \in (DOMAIN bookmarks[s]) \ {n} |-> bookmarks[s][m]]
                        /\ recents' = recents
                        /\ (n \notin DOMAIN bookmarks[s] => UNCHANGED vars)
             /\ \A k \in TimeKeys :
                   del_recent(s, k)
                     => /\ get_recent(s, k)' = None
                        /\ recents'[s] = [m \in (DOMAIN recents[s]) \ {k} |-> recents[s][m]]
                        /\ bookmarks' = bookmarks
                        /\ (k \notin DOMAIN recents[s] => UNCHANGED vars)]_vars
    /\ [](\A s \in Stores :
             /\ \A n \in BookmarkNames \ DOMAIN bookmarks[s] : Remove(bookmarks[s], n) = bookmarks[s]
             /\ \A k \in TimeKeys \ DOMAIN recents[s] : Remove(recents[s], k) = recents[s])

\* A client that holds the later of two recents and no bookmark, on a
\* bookmarks file that holds the bookmark and both recents.
C23_Witness ==
    \E s \in Stores :
        /\ pc[s] = "open"
        /\ bookmarks[s] = EmptyMap
        /\ DOMAIN recents[s] = {RecentKey(ClockStart + 1)}
        /\ bmFile # None
        /\ {l[1] : l \in bmFile[1].bookmarks} = {"raspberry"}
        /\ {l[1] : l \in FileRecents} = {RecentKey(ClockStart), RecentKey(ClockStart + 1)}

\* C26: an add_recent in the second of a stored recent with other connection
\* parameters makes the same key and overwrites that recent: the key then
\* holds the new entry, the old one is nowhere in the map, and the map has not
\* grown.
C26_SameSecondOverwrites ==
    [][\A s \in Stores, c \in RecentConns :
          (add_recent(s, c)
             /\ RecentKey(clock) \in DOMAIN recents[s]
             /\ ~ IsDuplicate(recents[s], NewRecent(s, c)))
            => /\ recents'[s][RecentKey(clock)] = NewRecent(s, c)
               /\ ~ IsDuplicate(recents'[s], recents[s][RecentKey(clock)])
               /\ Cardinality(DOMAIN recents'[s]) <= Cardinality(DOMAIN recents[s])
               /\ DOMAIN recents'[s] \subseteq DOMAIN recents[s]]_vars

\* In the first second a client holds, under the key of that second, another
\* recent than the bookmarks file does.
C26_Witness ==
    \E s \in Stores :
        /\ pc[s] = "open"
        /\ recents_size[s] = 2
        /\ clock = ClockStart
        /\ DOMAIN recents[s] = {RecentKey(ClockStart)}
        /\ recents[s][RecentKey(ClockStart)].address = "1.1.1.2"
        /\ \E l \in FileRecents : l[1] = RecentKey(ClockStart) /\ l[2].address = "1.1.1.1"

\* C28: the key of every client new has returned is 256 characters long, also
\* after a new that failed in generate_key with the key file created.
C28_KeyLength ==
    \A s \in Stores : pc[s] = "open" => key[s].len = KeyLen

(***************************************************************************)
(* Properties of ConfigClient                                              *)
(***************************************************************************)
\* C9: every entry of a client's SSH key storage maps to a key file that
\* exists, also after operations that failed.
C9_VaultFilesExist ==
    \A s \in Stores : cpc[s] = "open" =>
        \A n \in DOMAIN config[s].ssh_keys :
            /\ keyDir # None
            /\ config[s].ssh_keys[n].file \in DOMAIN keyDir[1]

\* C10: after a successful add_ssh_key(host, username, contents), get_ssh_key
\* of username@host gives (host, username, path), path is the file named
\* username@host.key in the key directory, and that file holds contents.
C10_AddThenGet ==
    [][\A s \in Stores, h \in SshHosts, u \in SshUsers, k \in SshKeys :
          add_ssh_key(s, h, u, k, "ok") =>
            LET host_name == make_ssh_host_key(h, u)
            IN  /\ get_ssh_key(s, host_name)'
                     = [res |-> "some", val |-> <<h, u, SshKeyPath(host_name)>>]
                /\ keyDir' # None
                /\ SshKeyPath(host_name).file \in DOMAIN keyDir'[1]
                /\ keyDir'[1][SshKeyPath(host_name).file] = k]_vars

\* The entries the settings file records, as key file names.
RecordedKeyFiles ==
    IF cfgFile = None THEN {}
    ELSE {l[2].file : l \in cfgFile[1].ssh_keys}

\* The key files in the SSH key directory.
KeyFiles == IF keyDir = None THEN {} ELSE DOMAIN keyDir[1]

\* C11: when del_ssh_key(host, username) returns success, the client has no
\* entry for username@host and the key file of username@host does not exist;
\* a del_ssh_key of a host without entry returns success and changes nothing,
\* so wherever a client has no entry for username@host (the call would return
\* success and leave the state as it is) the key file does not exist either.
C11_DeleteRemovesEntryAndFile ==
    /\ [][\A s \in Stores, h \in SshHosts, u \in SshUsers,
             o \in {"ok", "remove_err", "cfg_open_err", "cfg_write_err"} :
             (del_ssh_key(s, h, u, o) /\ del_ssh_key_result(s, h, u, o) = "ok")
               => LET host_name == make_ssh_host_key(h, u)
                  IN  /\ host_name \notin DOMAIN config'[s].ssh_keys
                      /\ SshKeyPath(host_name).file \notin KeyFiles'
                      /\ (host_name \notin DOMAIN config[s].ssh_keys => UNCHANGED vars)]_vars
    /\ [](\A s \in Stores, h \in SshHosts, u \in SshUsers :
             (cpc[s] = "open" /\ del_ssh_key_result(s, h, u, "ok") = "ok"
                /\ make_ssh_host_key(h, u) \notin DOMAIN config[s].ssh_keys)
               => SshKeyPath(make_ssh_host_key(h, u)).file \notin KeyFiles)

\* C12: after every add_ssh_key or del_ssh_key that returns success, the
\* entries the settings file records and the key files in the key directory
\* correspond one to one.
C12_SettingsMatchKeyFiles ==
    [][\A s \in Stores, h \in SshHosts, u \in SshUsers :
          /\ \A k \in SshKeys,
                o \in {"ok", "create_err", "write_err", "cfg_open_err", "cfg_write_err"} :
                (add_ssh_key(s, h, u, k, o) /\ add_ssh_key_result(o) = "ok")
                  => RecordedKeyFiles' = KeyFiles'
          /\ \A o \in {"ok", "remove_err", "cfg_open_err", "cfg_write_err"} :
                (del_ssh_key(s, h, u, o) /\ del_ssh_key_result(s, h, u, o) = "ok")
                  => RecordedKeyFiles' = KeyFiles']_vars

\* The entries the settings file records, as keys of the SSH key storage.
RecordedHosts ==
    IF cfgFile = None THEN {}
    ELSE {l[1] : l \in cfgFile[1].ssh_keys}

\* A del_ssh_key of client s that finds the entry and fails in remove_file.
RemoveFails(s, h, u, o) ==
    /\ del_ssh_key(s, h, u, o)
    /\ make_ssh_host_key(h, u) \in DOMAIN config[s].ssh_keys
    /\ \/ o = "remove_err"
       \/ config[s].ssh_keys[make_ssh_host_key(h, u)].file \notin KeyFiles

\* C24 as stated: a del_ssh_key that finds the entry and fails in remove_file
\* returns the error, with the entry out of the client's storage, the settings
\* file not written and still holding the entry, and the key file in place.
C24_FailedRemoveKeepsDiskEntry ==
    [][\A s \in Stores, h \in SshHosts, u \in SshUsers,
          o \in {"ok", "remove_err", "cfg_open_err", "cfg_write_err"} :
          RemoveFails(s, h, u, o)
            => /\ del_ssh_key_result(s, h, u, o) = "err"
               /\ make_ssh_host_key(h, u) \notin DOMAIN config'[s].ssh_keys
               /\ cfgFile' = cfgFile
               /\ make_ssh_host_key(h, u) \in RecordedHosts'
               /\ SshKeyPath(make_ssh_host_key(h, u)).file \in KeyFiles']_vars

\* C24 amended: it returns the error, with the entry out of the client's
\* storage and every other entry kept, and with the settings file and the key
\* directory exactly as they were: the settings file holds the entry if it
\* held it before, the key file is in place if it was before.
C24_FailedRemoveLeavesDisk ==
    [][\A s \in Stores, h \in SshHosts, u \in SshUsers,
          o \in {"ok", "remove_err", "cfg_open_err", "cfg_write_err"} :
          RemoveFails(s, h, u, o)
            => /\ del_ssh_key_result(s, h, u, o) = "err"
               /\ config'[s].ssh_keys = Remove(config[s].ssh_keys, make_ssh_host_key(h, u))
               /\ cfgFile' = cfgFile
               /\ keyDir' = keyDir
               /\ cpc' = cpc]_vars

\* A client without the entry while the settings file records it and its key
\* file is in place, in full.
C24_Witness ==
    \E s \in Stores, h \in SshHosts, u \in SshUsers :
        /\ cpc[s] = "open"
        /\ make_ssh_host_key(h, u) \notin DOMAIN config[s].ssh_keys
        /\ make_ssh_host_key(h, u) \in RecordedHosts
        /\ SshKeyPath(make_ssh_host_key(h, u)).file \in KeyFiles
        /\ keyDir[1][SshKeyPath(make_ssh_host_key(h, u)).file] \in SshKeys

\* What a write_config that failed leaves of the settings file.
NotWritten == {cfgFile, Some(TruncatedConfig)}

Scalars(cfg) == <<cfg.text_editor, cfg.default_protocol, cfg.show_hidden_files, cfg.group_dirs>>

\* A del_ssh_key of client s that finds the entry, removes its key file and
\* writes the settings file.
RemoveSucceeds(s, h, u) ==
    /\ del_ssh_key(s, h, u, "ok")
    /\ make_ssh_host_key(h, u) \in DOMAIN config[s].ssh_keys
    /\ del_ssh_key_result(s, h, u, "ok") = "ok"

\* C31: an add_ssh_key that succeeds, and a del_ssh_key that succeeds for an
\* entry the client holds, write the whole configuration of the client: the
\* settings file is then the serialized configuration, reads back as the
\* configuration, and holds the settings the setters left in the client, which
\* the call did not change; a del_ssh_key for an entry the client does not
\* hold returns success and has no step that changes the settings file.
C31_SshKeyOpsPersistAll ==
    /\ [](\A s \in Stores, h \in SshHosts, u \in SshUsers,
             o \in {"ok", "remove_err", "cfg_open_err", "cfg_write_err"} :
             (cpc[s] = "open" /\ make_ssh_host_key(h, u) \notin DOMAIN config[s].ssh_keys)
               => /\ del_ssh_key_result(s, h, u, o) = "ok"
                  /\ ~ ENABLED (del_ssh_key(s, h, u, o) /\ UNCHANGED bvars
                                  /\ cfgFile' # cfgFile))
    /\ [][\A s \in Stores, h \in SshHosts, u \in SshUsers :
             /\ \A k \in SshKeys :
                   add_ssh_key(s, h, u, k, "ok")
                     => /\ add_ssh_key_result("ok") = "ok"
                        /\ cfgFile' = Some(SerializeConfig(config'[s]))
                        /\ DeserializeConfig(cfgFile'[1]) = config'[s]
                        /\ Scalars(DeserializeConfig(cfgFile'[1])) = Scalars(config[s])
             /\ RemoveSucceeds(s, h, u)
                     => /\ cfgFile' = Some(SerializeConfig(config'[s]))
                        /\ DeserializeConfig(cfgFile'[1]) = config'[s]
                        /\ Scalars(DeserializeConfig(cfgFile'[1])) = Scalars(config[s])]_vars

\* The settings file holds an editor a setter chose together with an entry of
\* the SSH key storage, and reads back as the client's configuration.
C31_Witness ==
    \E s \in Stores, h \in SshHosts, u \in SshUsers :
        /\ cpc[s] = "open"
        /\ cfgFile # None /\ cfgFile[1].ok
        /\ config[s].text_editor \in Editors
        /\ make_ssh_host_key(h, u) \in DOMAIN config[s].ssh_keys
        /\ make_ssh_host_key(h, u) \in RecordedHosts
        /\ keyDir[1][SshKeyPath(make_ssh_host_key(h, u)).file] \in SshKeys
        /\ DeserializeConfig(cfgFile[1]) = config[s]

(***************************************************************************)
(* Properties of both clients                                              *)
(***************************************************************************)
\* C13: add_bookmark, del_bookmark, add_recent and del_recent leave the
\* bookmarks file as it is, and the four setters leave the settings file as it
\* is; the bookmarks file changes only in write_bookmarks and in new, the
\* settings file only in write_config, new, add_ssh_key and del_ssh_key.
C13_NoImplicitWrite ==
    [][/\ \A s \in Stores :
            /\ \A n \in BookmarkNames, c \in BookmarkConns, p \in Passwords :
                  add_bookmark(s, n, c, p) => bmFile' = bmFile
            /\ \A n \in BookmarkNames : del_bookmark(s, n) => bmFile' = bmFile
            /\ \A c \in RecentConns : add_recent(s, c) => bmFile' = bmFile
            /\ \A n \in TimeKeys : del_recent(s, n) => bmFile' = bmFile
            /\ \A e \in Editors : set_text_editor(s, e) => cfgFile' = cfgFile
            /\ \A p \in DefaultProtocols : set_default_protocol(s, p) => cfgFile' = cfgFile
            /\ \A v \in BOOLEAN : set_show_hidden_files(s, v) => cfgFile' = cfgFile
            /\ \A g \in GroupDirs : set_group_dirs(s, g) => cfgFile' = cfgFile
       /\ bmFile' # bmFile =>
            \E s \in Stores, o \in {"ok", "open_err", "write_err"} :
                write_bookmarks(s, o) \/ NewData(s, o)
       /\ cfgFile' # cfgFile =>
            \E s \in Stores :
                \/ \E o \in {"ok", "open_err", "write_err"} :
                      write_config(s, o) \/ ConfigClient_new(s, o)
                \/ \E h \in SshHosts, u \in SshUsers :
                      \/ \E k \in SshKeys, o \in {"ok", "cfg_open_err", "cfg_write_err"} :
                            add_ssh_key(s, h, u, k, o)
                      \/ \E o \in {"ok", "cfg_open_err", "cfg_write_err"} :
                            del_ssh_key(s, h, u, o)]_vars

\* A client holds a bookmark and a recent while the bookmarks file still is
\* the empty one new wrote.
C13_Witness ==
    \E s \in Stores :
        /\ pc[s] = "open"
        /\ "raspberry" \in DOMAIN bookmarks[s]
        /\ recents[s] # EmptyMap
        /\ bmFile = Some(SerializeHosts(EmptyMap, EmptyMap))

\* C15: new gives a client or nothing.  A failed step of BookmarksClient::new
\* (load_key, generate_key, the first write_bookmarks, read_bookmarks) or of
\* ConfigClient::new (create_dir, the first write_config, read_config) leaves
\* no client; a BookmarksClient exists only with the key of the key file and
\* with the bookmarks file written or loaded, a ConfigClient only with the key
\* directory in place and the settings file written or loaded.
C15_NewAllOrNothing ==
    [][\A s \in Stores :
          /\ \A size \in RecentsSizes, o \in {"io", "open_err", "write_err"} :
                NewKey(s, size, o) => (pc'[s] = "closed" /\ key'[s] = NoKey)
          /\ \A o \in {"io", "syntax", "open_err", "write_err"} :
                NewData(s, o) => (pc'[s] = "closed" /\ key'[s] = NoKey
                                    /\ bookmarks'[s] = EmptyMap /\ recents'[s] = EmptyMap)
          /\ pc'[s] = "keyed" => (keyFile' # None /\ key'[s] = keyFile'[1])
          /\ (pc[s] # "open" /\ pc'[s] = "open")
                => /\ pc[s] = "keyed"
                   /\ keyFile' # None /\ key'[s] = keyFile'[1]
                   /\ bmFile' # None /\ bmFile'[1].ok
                   /\ bookmarks'[s] = DeserializeTable(bmFile'[1].bookmarks)
                   /\ recents'[s] = DeserializeTable(bmFile'[1].recents)
          /\ \A o \in {"dir_err", "io", "syntax", "open_err", "write_err"} :
                ConfigClient_new(s, o) => (cpc'[s] = "closed" /\ config'[s] = DefaultConfig)
          /\ (cpc[s] # "open" /\ cpc'[s] = "open")
                => /\ keyDir' # None
                   /\ cfgFile' # None /\ cfgFile'[1].ok
                   /\ config'[s] = DeserializeConfig(cfgFile'[1])]_vars

\* new failed in its first write_bookmarks: the key file is there, the
\* bookmarks file is cut short, and there is no client.
C15_Witness ==
    \E s \in Stores :
        /\ pc[s] = "closed"
        /\ key[s] = NoKey
        /\ keyFile = Some([id |-> 1, len |-> KeyLen])
        /\ bmFile = Some(Truncated)

\* C18: for every host and username add_ssh_key takes, get_ssh_tokens of the
\* key make_ssh_host_key builds gives that host and that username; get_ssh_key
\* of a stored key never panics and gives the pair the key was built from.
C18_KeysDecompose ==
    /\ [][\A s \in Stores, h \in SshHosts, u \in SshUsers, k \in SshKeys :
             add_ssh_key(s, h, u, k, "ok")
               => get_ssh_tokens(make_ssh_host_key(h, u)) = Some(<<h, u>>)]_vars
    /\ [](\A s \in Stores : \A n \in DOMAIN config[s].ssh_keys :
             /\ get_ssh_key(s, n).res = "some"
             /\ make_ssh_host_key(get_ssh_key(s, n).val[1], get_ssh_key(s, n).val[2]) = n)

\* C21: after a read_bookmarks that succeeded the bookmarks and the recents of
\* the client are those of the bookmarks file, and after a read_config that
\* succeeded the configuration of the client, its SSH key storage included, is
\* the one of the settings file; what the client held before is gone.
C21_ReloadReplacesState ==
    [][\A s \in Stores :
          /\ read_bookmarks(s, "ok")
                => /\ bookmarks'[s] = DeserializeTable(bmFile[1].bookmarks)
                   /\ recents'[s] = DeserializeTable(bmFile[1].recents)
                   /\ SerializeHosts(bookmarks'[s], recents'[s]) = bmFile[1]
          /\ read_config(s, "ok")
                => /\ config'[s] = DeserializeConfig(cfgFile[1])
                   /\ config'[s].ssh_keys = DeserializeTable(cfgFile[1].ssh_keys)
                   /\ SerializeConfig(config'[s]) = cfgFile[1]]_vars

\* A client whose SSH key storage is the empty one of the settings file while
\* the key file of an add_ssh_key that was never persisted is in the directory.
C21_Witness ==
    \E s \in Stores :
        /\ cpc[s] = "open"
        /\ cfgFile # None /\ cfgFile[1].ok
        /\ config[s] = DeserializeConfig(cfgFile[1])
        /\ config[s].ssh_keys = EmptyMap
        /\ \E f \in KeyFiles : keyDir[1][f] \in SshKeys

\* C29: a write_bookmarks or a write_config that returns an error leaves the
\* file with the content it had before the call.
C29_FailedPersistKeepsFile ==
    [][\A s \in Stores, o \in {"open_err", "write_err"} :
          /\ write_bookmarks(s, o) => bmFile' = bmFile
          /\ write_config(s, o) => cfgFile' = cfgFile]_vars

\* C30: a read_bookmarks or a read_config that returns an error changes
\* nothing: no such call has a step that changes a variable, and the steps it
\* has leave bookmarks, recents and configuration as they were.
C30_FailedReloadKeepsState ==
    /\ [](\A s \in Stores, o \in {"io", "syntax"} :
             /\ ~ ENABLED (read_bookmarks(s, o) /\ UNCHANGED svars /\ vars' # vars)
             /\ ~ ENABLED (read_config(s, o) /\ UNCHANGED bvars /\ vars' # vars))
    /\ [][\A s \in Stores, o \in {"io", "syntax"} :
             /\ read_bookmarks(s, o) => UNCHANGED <<bookmarks, recents, key, recents_size>>
             /\ read_config(s, o) => UNCHANGED config]_vars

\* A client holds a bookmark and a recent while the bookmarks file is cut
\* short: read_bookmarks can only fail there.
C30_Witness ==
    \E s \in Stores :
        /\ pc[s] = "open"
        /\ bookmarks[s] # EmptyMap
        /\ recents[s] # EmptyMap
        /\ bmFile = Some(Truncated)
        /\ ENABLED read_bookmarks(s, "syntax")

\* C27: with two clients on the same file, a write_bookmarks that succeeds
\* leaves in the file the bookmarks and recents of the client that wrote, and
\* nothing of what only the other client holds; neither client changes and no
\* error is returned.  The same holds for write_config and the settings file.
C27_LastPersistWins ==
    [][\A s \in Clients :
          /\ write_bookmarks(s, "ok")
                => /\ bmFile' = Some(SerializeHosts(bookmarks[s], recents[s]))
                   /\ \A r \in Clients \ {s} : \A n \in (DOMAIN bookmarks[r]) \ DOMAIN bookmarks[s] :
                         n \notin {l[1] : l \in bmFile'[1].bookmarks}
                   /\ UNCHANGED <<bookmarks, recents, pc>>
          /\ write_config(s, "ok")
                => /\ cfgFile' = Some(SerializeConfig(config[s]))
                   /\ DeserializeConfig(cfgFile'[1]) = config[s]
                   /\ UNCHANGED <<config, cpc>>]_vars

\* Both clients are open; the first holds the bookmark of the second, which it
\* read from the file, and one of its own; the file holds what the second
\* client holds, without the bookmark of the first.
C27_Witness ==
    /\ pc["s1"] = "open" /\ pc["s2"] = "open"
    /\ DOMAIN bookmarks["s1"] = {"raspberry", "server"}
    /\ DOMAIN bookmarks["s2"] = {"server"}
    /\ bmFile = Some(SerializeHosts(bookmarks["s2"], recents["s2"]))

====
